---- MODULE Spec2Model ----
(***************************************************************************)
(* git-gasset: the connect-or-create bootstrap of a project against its    *)
(* kopia repository (cmd/init.go, util/rand.go, util/config.go) and the    *)
(* selection of the previous snapshot manifests (cmd/snap.go).             *)
(*                                                                         *)
(* Spec     one project, a sequence of `init` / `snap` invocations, each   *)
(*          run step by step with every backend call free to fail.         *)
(* SpecSel  findPreviousSnapshotManifest applied to bounded manifest lists *)
(*          and to a reordering of the same list.                          *)
(* SpecSnap the write-session callback of createSnapshot: the loop over    *)
(*          the declared directories and snapshotSingleSource, call by     *)
(*          call.                                                          *)
(* SpecGit  GetGitWorkingDirectory on bounded absolute paths, one call of  *)
(*          the recursion per step.                                        *)
(* SpecCfg  the .gasset file under ReloadKopiaConfig, connect and          *)
(*          UpdateGassetId, with another process reading it.               *)
(* SpecPath GetKopiaUserConfigPath on identities as strings.               *)
(* SpecRand GenerateRandomString on bounded lengths and draws.             *)
(* SpecRace two processes in UpdateGassetId on the same .gasset file.      *)
(***************************************************************************)
EXTENDS Integers, Sequences, FiniteSets, TLC

VARIABLES
    fileId,      \* GassetId persisted in <root>/.gasset (a sequence of letters, <<>> = "")
    fileState,   \* "ok": .gasset decodes; "corrupt": left truncated by a failed os.WriteFile
    storage,     \* the blob storage location: "empty" or "data"
    policy,      \* global policy of the repository: "none" or "default"
    userConfigs, \* identities with a kopia-<id>.config file in the user config dir
    pc,          \* position of the running invocation ("idle" between invocations)
    cmd,         \* "init" or "snap": the command being run
    create,      \* the --create flag of the running init
    memId,       \* op.Config.GassetId of the running invocation
    err,         \* the error the invocation returned ("" = nil)
    calls,       \* the calls made by the running invocation, in order
    probe,       \* outcome of the ListBlobs probe of this invocation
    start,       \* identities and storage when connect / createSnapshot was entered
    prev,        \* summary of the invocation that finished before this one
    runs,        \* number of invocations started
    nInitOk,     \* RepoInitialize calls that returned nil, over all invocations
    nAssigned,   \* executions of the identity assignment, over all invocations
    initOnData,  \* TRUE once RepoInitialize was invoked on storage holding data
    streak,      \* finished invocations since the last one that was not a successful
                 \* connect without create
    base,        \* file, storage and policy when the invocation after that one started
    manifests,   \* SpecSel: what snapshot.ListSnapshots returned
    reordered,   \* SpecSel: the same manifests in another order
    result,      \* SpecSel: findPreviousSnapshotManifest(manifests)
    result2,     \* SpecSel: findPreviousSnapshotManifest(reordered)
    selPc,       \* SpecSel: "in", "shuffled", "done", "failed"
    handles,     \* backend handles the running invocation holds open
    gapRun       \* the first invocation whose initPolicy failed (0: none has)

bootVars == <<fileId, fileState, storage, policy, userConfigs, pc, cmd, create,
              memId, err, calls, probe, start, prev, runs, nInitOk, nAssigned,
              initOnData, streak, base, handles, gapRun>>
selVars == <<manifests, reordered, result, result2, selPc>>

VARIABLES
    dirs,                    \* SpecSnap: op.Config.Dirs, the declared source directories
    srcIdx,                  \* SpecSnap: position in dirs of the source being processed
    snapPc,                  \* SpecSnap: the next call of the write-session callback
    previousManifests,       \* SpecSnap: snapshotSingleSource's previousManifests
    ignoreIdenticalSnapshot, \* SpecSnap: snapshotSingleSource's ignoreIdenticalSnapshot
    manifestRoot,            \* SpecSnap: manifest.RootObjectID() of the upload
    snapLog,                 \* SpecSnap: the calls made so far, each with its source
    snapErr                  \* SpecSnap: the error the callback returned

snapVars == <<dirs, srcIdx, snapPc, previousManifests, ignoreIdenticalSnapshot,
              manifestRoot, snapLog, snapErr>>

VARIABLES
    gitStart,   \* SpecGit: the path GetGitWorkingDirectory was first called with
    gitMarker,  \* SpecGit: what os.Stat finds at <dir>/.git, per depth of dir on the path
    gitPath,    \* SpecGit: the path argument of the running call
    gitPc,      \* SpecGit: "call", "returned" or "panic"
    gitOut      \* SpecGit: the (path, error) returned

gitVars == <<gitStart, gitMarker, gitPath, gitPc, gitOut>>

VARIABLES
    gasset,      \* SpecCfg: the content of <root>/.gasset
    gasset0,     \* SpecCfg: its content before the first operation
    secrets,     \* SpecCfg: what the .env file of the project holds
    opConfig,    \* SpecCfg: op.Config of the running process
    opPassword,  \* SpecCfg: op.Password
    config,      \* SpecCfg: the local `config` of UpdateGassetId
    cfgPc,       \* SpecCfg: "ready", or the next step of UpdateGassetId
    cfgOps,      \* SpecCfg: operations started
    observed,    \* SpecCfg: what another process's GetConfig last read
    scratch      \* SpecCfg: the file kopia.config in the OS temp directory

cfgVars == <<gasset, gasset0, secrets, opConfig, opPassword, config, cfgPc,
             cfgOps, observed, scratch>>

VARIABLES
    pathUserDir, \* SpecPath: what op.OsUserConfigDir() returns
    pathId,      \* SpecPath: op.Config.GassetId, a string as a sequence of characters
    pathOut,     \* SpecPath: the (path, error) GetKopiaUserConfigPath returned
    pathPc       \* SpecPath: "call" or "returned"

pathVars == <<pathUserDir, pathId, pathOut, pathPc>>

VARIABLES
    randN,       \* SpecRand: the argument n of GenerateRandomString
    randDraws,   \* SpecRand: what randFunc returns, call by call
    randOut,     \* SpecRand: the string returned
    randPc       \* SpecRand: "call" or "returned"

randVars == <<randN, randDraws, randOut, randPc>>

VARIABLES
    raceFile,    \* SpecRace: the content of <root>/.gasset
    raceFile0,   \* SpecRace: its content before the two calls
    raceId,      \* SpecRace: the gassetId argument of each process's UpdateGassetId
    racePc,      \* SpecRace: per process "call", "writeFile", "write" or "returned"
    raceRead,    \* SpecRace: what each process's GetConfig read
    raceConfig,  \* SpecRace: each process's local config
    raceErr,     \* SpecRace: the error each process's UpdateGassetId returned
    raceLast     \* SpecRace: the process whose write completed last (0: none has)

raceVars == <<raceFile, raceFile0, raceId, racePc, raceRead, raceConfig, raceErr,
              raceLast>>

vars == <<bootVars, selVars, snapVars, gitVars, cfgVars, pathVars, randVars,
          raceVars>>

\* what the steps of one specification leave alone
notBoot == <<selVars, snapVars, gitVars, cfgVars, pathVars, randVars,
            raceVars>>
notSel == <<bootVars, snapVars, gitVars, cfgVars, pathVars, randVars,
            raceVars>>
notSnap == <<bootVars, selVars, gitVars, cfgVars, pathVars, randVars,
            raceVars>>
notGit == <<bootVars, selVars, snapVars, cfgVars, pathVars, randVars,
            raceVars>>
notCfg == <<bootVars, selVars, snapVars, gitVars, pathVars, randVars,
            raceVars>>
notPath == <<bootVars, selVars, snapVars, gitVars, cfgVars, randVars,
            raceVars>>
notRand == <<bootVars, selVars, snapVars, gitVars, cfgVars, pathVars,
            raceVars>>
notRace == <<bootVars, selVars, snapVars, gitVars, cfgVars, pathVars, randVars>>

----------------------------------------------------------------------------
(* Bounds *)

\* invocations of init / snap in one behaviour
MaxRuns == 3
\* distinct values the random source RandIntn may return
NumDraws == 2

\* declared source directories
MaxDirs == 2
\* directories below the filesystem root on a start path
MaxDepth == 2
\* ReloadKopiaConfig, connect and UpdateGassetId calls in one behaviour
MaxOps == 3
\* characters of an identity read from .gasset
MaxIdLen == 3
\* the length asked of GenerateRandomString
MaxN == 3
\* manifests in the history of one source
MaxLen == 3
\* the latest StartTime of a manifest; the earliest is one tick before the epoch
MaxTime == 2

----------------------------------------------------------------------------
(* util.GenerateRandomString and the identity-keyed path *)

\* InitRun / SnapRun: GassetIdLength: 8
GassetIdLength == 8

letters == << "0","1","2","3","4","5","6","7","8","9",
              "a","b","c","d","e","f","g","h","i","j","k","l","m",
              "n","o","p","q","r","s","t","u","v","w","x","y","z",
              "A","B","C","D","E","F","G","H","I","J","K","L","M",
              "N","O","P","Q","R","S","T","U","V","W","X","Y","Z" >>

\* randFunc is the sequence of values RandIntn returns, one per draw
GenerateRandomStringShort(n, randFunc) ==
    [i \in 1..(n - 1) |-> letters[randFunc[i] + 1]]

GenerateRandomString(n, randFunc) == [i \in 1..n |-> letters[randFunc[i] + 1]]

\* the random sources explored: RandIntn constantly c, for the first NumDraws c
RandFuncs == {[i \in 1..GassetIdLength |-> c] : c \in 0..(NumDraws - 1)}

EmptyId == << >>
Ids == {GenerateRandomString(GassetIdLength, r) : r \in RandFuncs}

\* os.UserConfigDir() of the machine
UserDir == "userdir"

\* filepath.Join(userDir, "git-gasset", "kopia-"+GassetId+".config")
KopiaUserConfigPath(id) == <<UserDir, "git-gasset", <<"kopia-", id, ".config">>>>

----------------------------------------------------------------------------
(* Errors *)

ErrHasData == "found existing data in storage location"
ErrListing == "error listing blobs"
ErrIdEmpty == "gasset id is empty"
NoErr == ""

----------------------------------------------------------------------------
(* One project: Init *)

NoPrev == [cmd |-> "none", create |-> FALSE, err |-> NoErr, memId |-> EmptyId,
           fileId |-> EmptyId]

Snapshot == [memId |-> fileId, fileId |-> fileId, fileState |-> fileState,
             storage |-> storage, policy |-> policy, userConfigs |-> userConfigs,
             nInitOk |-> nInitOk]

\* The .gasset file is written by the user before the first invocation, with or
\* without a gassetId; the storage location is empty or already holds blobs.
BootInit ==
    /\ fileId \in {EmptyId} \cup Ids
    /\ fileState = "ok"
    /\ storage \in {"empty", "data"}
    /\ policy \in (IF storage = "data" THEN {"none", "default"} ELSE {"none"})
    /\ userConfigs = {}
    /\ pc = "idle"
    /\ cmd = "none"
    /\ create = FALSE
    /\ memId = EmptyId
    /\ err = NoErr
    /\ calls = << >>
    /\ probe = "none"
    /\ prev = NoPrev
    /\ runs = 0
    /\ nInitOk = 0
    /\ nAssigned = 0
    /\ initOnData = FALSE
    /\ streak = 0
    /\ handles = {}
    /\ gapRun = 0
    /\ start = Snapshot
    /\ base = Snapshot

SelIdle ==
    /\ manifests = << >>
    /\ reordered = << >>
    /\ result = << >>
    /\ result2 = << >>
    /\ selPc = "in"

\* the error value nil of the write-session callback
NoSnapErr == [src |-> 0, op |-> ""]

SnapIdle ==
    /\ dirs = << >>
    /\ srcIdx = 1
    /\ snapPc = "idle"
    /\ previousManifests = << >>
    /\ ignoreIdenticalSnapshot = FALSE
    /\ manifestRoot = ""
    /\ snapLog = << >>
    /\ snapErr = NoSnapErr

GitIdle ==
    /\ gitStart = << >>
    /\ gitMarker = << >>
    /\ gitPath = << >>
    /\ gitPc = "idle"
    /\ gitOut = [path |-> << >>, err |-> ""]

\* the backend section of a config: the s3 options with their credential
\* fields, and whether it carries keys repo.LocalConfig does not know
NoKopia == [storage |-> "", accessKeyID |-> "", secretAccessKey |-> "", extra |-> FALSE]

\* a .gasset file of zero bytes
EmptyFile == [bytes |-> "empty", kopia |-> NoKopia, gassetId |-> << >>,
              dirs |-> "absent", form |-> ""]

\* a nil *Config
NoConfig == [kopia |-> NoKopia, gassetId |-> << >>, dirs |-> "nil"]

NoSecrets == [accessKey |-> "", secretKey |-> "", password |-> ""]

CfgIdle ==
    /\ gasset = EmptyFile
    /\ gasset0 = EmptyFile
    /\ secrets = NoSecrets
    /\ opConfig = NoConfig
    /\ opPassword = ""
    /\ config = NoConfig
    /\ cfgPc = "idle"
    /\ cfgOps = 0
    /\ observed = EmptyFile
    /\ scratch = EmptyFile

PathIdle ==
    /\ pathUserDir = << >>
    /\ pathId = << >>
    /\ pathOut = [path |-> << >>, err |-> ""]
    /\ pathPc = "idle"

RandIdle ==
    /\ randN = 0
    /\ randDraws = << >>
    /\ randOut = << >>
    /\ randPc = "idle"

RaceIdle ==
    /\ raceFile = EmptyFile
    /\ raceFile0 = EmptyFile
    /\ raceId = << >>
    /\ racePc = << >>
    /\ raceRead = << >>
    /\ raceConfig = << >>
    /\ raceErr = << >>
    /\ raceLast = 0

\* the parts of the state a specification of one function leaves idle
OthersIdle == PathIdle /\ RandIdle /\ RaceIdle

Init == BootInit /\ SelIdle /\ SnapIdle /\ GitIdle /\ CfgIdle /\ OthersIdle

----------------------------------------------------------------------------
(* Steps of an invocation *)

Summary == [cmd |-> cmd, create |-> create, err |-> err, memId |-> memId,
            fileId |-> fileId]

ReturnIgnoredByConnect(e, cs) ==
    /\ pc' = (IF pc = "connect" THEN "connectRepo" ELSE "done")
    /\ err' = e
    /\ calls' = calls \o cs

\* the invocation returns e after making the calls cs
Return(e, cs) ==
    /\ pc' = "done"
    /\ err' = e
    /\ calls' = calls \o cs

\* the invocation goes on at label l after making the calls cs
Goto(l, cs) ==
    /\ pc' = l
    /\ err' = NoErr
    /\ calls' = calls \o cs

\* the handles held after a step that acquired the handles in opened and made
\* the calls cs: rep.Close releases the repository RepoOpen returned
HandlesAfter(opened, cs) ==
    (handles \cup opened) \ (IF \E i \in 1..Len(cs) : cs[i] = "Close"
                                THEN {"rep"} ELSE {})

\* A new process: options built, InitWorkingDirectory and ReloadKopiaConfig run.
\* GetConfig fails on an unreadable or undecodable .gasset; on success
\* op.Config holds what the file holds.
Setup(c, cr, entry) ==
    /\ pc \in {"idle", "done"}
    /\ runs < MaxRuns
    /\ runs' = runs + 1
    /\ prev' = (IF pc = "done" THEN Summary ELSE prev)
    /\ cmd' = c
    /\ create' = cr
    /\ probe' = "none"
    /\ start' = Snapshot
    /\ IF pc = "done" /\ cmd = "init" /\ ~create /\ err = NoErr
          THEN streak' = streak + 1 /\ base' = base
          ELSE streak' = 0 /\ base' = Snapshot
    /\ \/ /\ fileState = "ok"
          /\ memId' = fileId
          /\ pc' = entry
          /\ err' = NoErr
          /\ calls' = << >>
       \/ /\ memId' = EmptyId
          /\ pc' = "done"
          /\ err' = "setup failed"
          /\ calls' = << >>
    /\ handles' = {}
    /\ UNCHANGED <<notBoot, gapRun, fileId, fileState, storage, policy, userConfigs,
                   nInitOk, nAssigned, initOnData>>

InitRun == \E cr \in BOOLEAN : Setup("init", cr, "connect")

SnapRun == Setup("snap", FALSE, "createSnapshot")

CreateRepoPersistsBeforePolicy(l) ==
    CASE l = "createRepo" -> "repoInitialize"
      [] l = "repoInitialize" -> "assignId"
      [] l = "assignId" -> "connectRepoCreate"
      [] l = "connectRepoCreate" -> "updateGassetId"
      [] l = "updateGassetId" -> "initPolicy"
      [] l = "initPolicy" -> "connectRepo"

CreateRepoSkipsPolicy(l) ==
    CASE l = "createRepo" -> "repoInitialize"
      [] l = "repoInitialize" -> "assignId"
      [] l = "assignId" -> "connectRepoCreate"
      [] l = "connectRepoCreate" -> "updateGassetId"
      [] l = "initPolicy" -> "updateGassetId"
      [] l = "updateGassetId" -> "connectRepo"

\* createRepo: the statement that follows the step at l when it returned nil;
\* after the last one connect goes on with connectRepo
CreateRepoNext(l) ==
    CASE l = "createRepo" -> "repoInitialize"
      [] l = "repoInitialize" -> "assignId"
      [] l = "assignId" -> "connectRepoCreate"
      [] l = "connectRepoCreate" -> "initPolicy"
      [] l = "initPolicy" -> "updateGassetId"
      [] l = "updateGassetId" -> "connectRepo"

AfterS3NewAlwaysCreates(cr) == "createRepo"

AfterS3NewInverted(cr) == IF cr THEN "connectRepo" ELSE "createRepo"

\* connect: `if create { createRepo }`, then connectRepo
AfterS3New(cr) == IF cr THEN "createRepo" ELSE "connectRepo"

\* connect: op.S3New, then createRepo when create is set, then connectRepo
Connect ==
    /\ pc = "connect"
    /\ \/ /\ Goto(AfterS3New(create), <<"S3New">>)
          /\ handles' = HandlesAfter({"storage"}, <<"S3New">>)
       \/ /\ Return("S3New", <<"S3New">>)
          /\ handles' = handles
    /\ UNCHANGED <<notBoot, gapRun, streak, base, fileId, fileState, storage, policy,
                   userConfigs, cmd, create, memId, probe, start, prev, runs,
                   nInitOk, nAssigned, initOnData>>

\* what storage.ListBlobs returns to ensureEmpty: the callback's hasDataError on
\* the first blob it visits, nil when it visits none, or an error of its own
ListBlobs(st) == {"failed"} \cup (IF st = "empty" THEN {"nil"} ELSE {"hasData"})

ensureEmptyIgnoresData(listing) ==
    IF listing = "failed" THEN ErrListing ELSE NoErr

ensureEmptyFailureIsEmpty(listing) ==
    IF listing = "hasData" THEN ErrHasData ELSE NoErr

ensureEmptyNoDistinction(listing) ==
    IF listing = "nil" THEN NoErr ELSE ErrListing

ensureEmpty(listing) ==
    IF listing = "nil" THEN NoErr
    ELSE IF listing = "hasData" THEN ErrHasData
    ELSE ErrListing

\* createRepo, first step: the emptiness probe
CreateRepoProbe ==
    /\ pc = "createRepo"
    /\ \E listing \in ListBlobs(storage) :
          /\ probe' = listing
          /\ IF ensureEmpty(listing) = NoErr
                THEN Goto(CreateRepoNext(pc), <<"ListBlobs">>)
                ELSE Return(ensureEmpty(listing), <<"ListBlobs">>)
    /\ UNCHANGED <<notBoot, gapRun, handles, streak, base, fileId, fileState, storage, policy,
                   userConfigs, cmd, create, memId, start, prev, runs,
                   nInitOk, nAssigned, initOnData>>

\* createRepo: op.RepoInitialize(ctx, op.Storage, nil, op.Password). A successful
\* initialization leaves the repository's format blobs in the storage; a failed
\* one may have written some of them.
RepoInitialize ==
    /\ pc = "repoInitialize"
    /\ initOnData' = (initOnData \/ storage = "data")
    /\ \/ /\ storage' = "data"
          /\ nInitOk' = nInitOk + 1
          /\ Goto(CreateRepoNext(pc), <<"RepoInitialize">>)
       \/ /\ storage' \in {storage, "data"}
          /\ nInitOk' = nInitOk
          /\ Return("RepoInitialize", <<"RepoInitialize">>)
    /\ UNCHANGED <<notBoot, gapRun, handles, streak, base, fileId, fileState, policy,
                   userConfigs, cmd, create, memId, probe, start, prev, runs,
                   nAssigned>>

\* createRepo: op.Config.GassetId = util.GenerateRandomString(...)
AssignGassetId ==
    /\ pc = "assignId"
    /\ \E r \in RandFuncs : memId' = GenerateRandomString(GassetIdLength, r)
    /\ nAssigned' = nAssigned + 1
    /\ Goto(CreateRepoNext(pc), <<"GenerateRandomString">>)
    /\ UNCHANGED <<notBoot, gapRun, handles, streak, base, fileId, fileState, storage, policy,
                   userConfigs, cmd, create, probe, start, prev, runs,
                   nInitOk, initOnData>>

GetKopiaUserConfigPathUnchecked(id, dirErr) ==
    IF dirErr THEN [path |-> << >>, err |-> "OsUserConfigDir"]
    ELSE [path |-> KopiaUserConfigPath(id), err |-> NoErr]

\* Options.GetKopiaUserConfigPath; dirErr: os.UserConfigDir failed
GetKopiaUserConfigPath(id, dirErr) ==
    IF id = EmptyId THEN [path |-> << >>, err |-> ErrIdEmpty]
    ELSE IF dirErr THEN [path |-> << >>, err |-> "OsUserConfigDir"]
    ELSE [path |-> KopiaUserConfigPath(id), err |-> NoErr]

\* the calls GetKopiaUserConfigPath makes
PathCalls(id) ==
    IF GetKopiaUserConfigPath(id, FALSE).err # NoErr THEN << >> ELSE <<"OsUserConfigDir">>

\* connectRepo, called by createRepo after the identity is set and by connect
\* as its last step. A successful RepoConnect writes the kopia config file at
\* the identity-keyed path.
ConnectRepo ==
    /\ pc \in {"connectRepoCreate", "connectRepo"}
    /\ \E dirErr \in BOOLEAN :
          LET p == GetKopiaUserConfigPath(memId, dirErr) IN
          IF p.err # NoErr
             THEN /\ Return(p.err, PathCalls(memId))
                  /\ UNCHANGED userConfigs
             ELSE \/ /\ userConfigs' = userConfigs \cup {p.path}
                     /\ IF pc = "connectRepoCreate"
                           THEN Goto(CreateRepoNext(pc), PathCalls(memId) \o <<"RepoConnect">>)
                           ELSE Return(NoErr, PathCalls(memId) \o <<"RepoConnect">>)
                  \/ /\ Return("RepoConnect", PathCalls(memId) \o <<"RepoConnect">>)
                     /\ UNCHANGED userConfigs
    /\ UNCHANGED <<notBoot, gapRun, handles, streak, base, fileId, fileState, storage, policy,
                   cmd, create, memId, probe, start, prev, runs, nInitOk,
                   nAssigned, initOnData>>

\* the repository handle over a step of initPolicy or createSnapshot: held once
\* RepoOpen has returned a repository, released by the deferred rep.Close
RepHandles ==
    LET cs == SubSeq(calls', Len(calls) + 1, Len(calls'))
        opened == IF (\E i \in 1..Len(cs) : cs[i] = "RepoOpen") /\ err' # "RepoOpen"
                     THEN {"rep"} ELSE {}
    IN  handles' = HandlesAfter(opened, cs)

\* initPolicy: RepoOpen, then a write session whose callback sets the global
\* policy; the repository is closed when the function returns. The session
\* may fail before it runs the callback or when it flushes after it.
InitPolicy ==
    /\ pc = "initPolicy"
    /\ \E dirErr \in BOOLEAN :
          LET p == GetKopiaUserConfigPath(memId, dirErr)
              pre == PathCalls(memId) IN
          IF p.err # NoErr
             THEN /\ Return(p.err, pre)
                  /\ UNCHANGED policy
             ELSE \/ /\ Return("RepoOpen", pre \o <<"RepoOpen">>)
                     /\ UNCHANGED policy
                  \/ /\ Return("RepoWriteSession",
                               pre \o <<"RepoOpen", "RepoWriteSession", "Close">>)
                     /\ UNCHANGED policy
                  \/ /\ Return("RepoWriteSession",
                               pre \o <<"RepoOpen", "RepoWriteSession",
                                        "PolicySetPolicy", "Close">>)
                     /\ UNCHANGED policy
                  \/ /\ Return("PolicySetPolicy",
                               pre \o <<"RepoOpen", "RepoWriteSession",
                                        "PolicySetPolicy", "Close">>)
                     /\ UNCHANGED policy
                  \/ /\ Goto(CreateRepoNext(pc),
                             pre \o <<"RepoOpen", "RepoWriteSession",
                                      "PolicySetPolicy", "Close">>)
                     /\ policy' = "default"
    /\ RepHandles
    /\ gapRun' = IF err' # NoErr /\ gapRun = 0 THEN runs ELSE gapRun
    /\ UNCHANGED <<notBoot, streak, base, fileId, fileState, storage,
                   userConfigs, cmd, create, memId, probe, start, prev, runs,
                   nInitOk, nAssigned, initOnData>>

\* util.UpdateGassetId: GetConfig re-reads .gasset, the identity is set in the
\* decoded config and UpdateConfig writes the file back with os.WriteFile, which
\* truncates the file before it writes.
UpdateGassetId ==
    /\ pc = "updateGassetId"
    /\ \/ /\ Return("GetConfig", <<"ReadFile">>)
          /\ UNCHANGED <<fileId, fileState>>
       \/ /\ Return("WriteFile", <<"ReadFile", "WriteFile">>)
          /\ \/ UNCHANGED <<fileId, fileState>>
             \/ fileId' = EmptyId /\ fileState' = "corrupt"
       \/ /\ fileState = "ok"
          /\ Goto(CreateRepoNext(pc), <<"ReadFile", "WriteFile">>)
          /\ fileId' = memId
          /\ fileState' = "ok"
    /\ UNCHANGED <<notBoot, gapRun, handles, streak, base, storage, policy, userConfigs, cmd,
                   create, memId, probe, start, prev, runs, nInitOk,
                   nAssigned, initOnData>>

\* createSnapshot up to the write session: the identity-keyed path, RepoOpen,
\* then RepoWriteSession (the per-source work, which succeeds or fails) and the
\* deferred rep.Close.
CreateSnapshot ==
    /\ pc = "createSnapshot"
    /\ \E dirErr \in BOOLEAN :
          LET p == GetKopiaUserConfigPath(memId, dirErr)
              pre == PathCalls(memId) IN
          IF p.err # NoErr
             THEN Return(p.err, pre)
             ELSE \/ Return("RepoOpen", pre \o <<"RepoOpen">>)
                  \/ Return("RepoWriteSession",
                            pre \o <<"RepoOpen", "RepoWriteSession", "Close">>)
                  \/ Return(NoErr,
                            pre \o <<"RepoOpen", "RepoWriteSession", "Close">>)
    /\ RepHandles
    /\ UNCHANGED <<notBoot, gapRun, streak, base, fileId, fileState, storage, policy,
                   userConfigs, cmd, create, memId, probe, start, prev, runs,
                   nInitOk, nAssigned, initOnData>>

Next ==
    \/ InitRun
    \/ SnapRun
    \/ Connect
    \/ CreateRepoProbe
    \/ RepoInitialize
    \/ AssignGassetId
    \/ ConnectRepo
    \/ InitPolicy
    \/ UpdateGassetId
    \/ CreateSnapshot

Spec == Init /\ [][Next]_vars

----------------------------------------------------------------------------
(* findPreviousSnapshotManifest *)

\* fs.UTCTimestamp counts nanoseconds from the Unix epoch in a signed integer
Times == -1..MaxTime

\* snapshot.Manifest: the fields the selection reads; id tells apart the
\* manifest objects the slice points to
Manifest == [id : 1..MaxLen, StartTime : Times, IncompleteReason : {"", "canceled"}]

\* the histories of a source: n manifests, the i-th being object i
Histories ==
    UNION {{ms \in [1..n -> Manifest] : \A i \in 1..n : ms[i].id = i} : n \in 0..MaxLen}

\* the value of `var previousCompleteStartTime fs.UTCTimestamp` before any
\* assignment
ZeroTime == 0

NotBefore(t, u) == t >= u

\* UTCTimestamp.After
After(t, u) == t > u

RECURSIVE LastCompleteFrom(_, _, _)
LastCompleteFrom(ms, i, previousComplete) ==
    IF i > Len(ms) THEN previousComplete
    ELSE IF ms[i].IncompleteReason = "" THEN LastCompleteFrom(ms, i + 1, <<ms[i]>>)
    ELSE LastCompleteFrom(ms, i + 1, previousComplete)

RECURSIVE PreviousCompleteFrom(_, _, _)
\* the first loop, from index i on; previousComplete is << >> (nil) or <<m>>
PreviousCompleteFrom(ms, i, previousComplete) ==
    IF i > Len(ms) THEN previousComplete
    ELSE IF /\ ms[i].IncompleteReason = ""
            /\ (previousComplete = << >>
                  \/ After(ms[i].StartTime, previousComplete[1].StartTime))
         THEN PreviousCompleteFrom(ms, i + 1, <<ms[i]>>)
         ELSE PreviousCompleteFrom(ms, i + 1, previousComplete)

\* previousCompleteStartTime after the first loop
PreviousCompleteStartTime(previousComplete) ==
    IF previousComplete = << >> THEN ZeroTime ELSE previousComplete[1].StartTime

IsLaterIncomplete(m, since) == m.IncompleteReason # "" /\ After(m.StartTime, since)

CollectEveryIncomplete(ms, since) ==
    SelectSeq(ms, LAMBDA m : m.IncompleteReason # "")

\* the second loop
CollectIncomplete(ms, since) ==
    SelectSeq(ms, LAMBDA m : IsLaterIncomplete(m, since))

\* findPreviousSnapshotManifest once ListSnapshots has returned ms
findPreviousSnapshotManifest(ms) ==
    LET previousComplete == PreviousCompleteFrom(ms, 1, << >>)
    IN  previousComplete
           \o CollectIncomplete(ms, PreviousCompleteStartTime(previousComplete))

\* the orders in which ListSnapshots may return the manifests ms
Orders(ms) ==
    {[i \in 1..Len(ms) |-> ms[p[i]]] : p \in Permutations(1..Len(ms))}

\* no invocation is running while the selection is studied
BootIdle ==
    /\ fileId = EmptyId
    /\ fileState = "ok"
    /\ storage = "data"
    /\ policy = "default"
    /\ userConfigs = {}
    /\ pc = "idle"
    /\ cmd = "none"
    /\ create = FALSE
    /\ memId = EmptyId
    /\ err = NoErr
    /\ calls = << >>
    /\ probe = "none"
    /\ prev = NoPrev
    /\ runs = 0
    /\ nInitOk = 0
    /\ nAssigned = 0
    /\ initOnData = FALSE
    /\ streak = 0
    /\ handles = {}
    /\ gapRun = 0
    /\ start = Snapshot
    /\ base = Snapshot

SelInit ==
    /\ BootIdle
    /\ SnapIdle
    /\ GitIdle
    /\ CfgIdle
    /\ OthersIdle
    /\ manifests \in Histories
    /\ reordered = << >>
    /\ result = << >>
    /\ result2 = << >>
    /\ selPc = "in"

\* findPreviousSnapshotManifest on the history as listed; ListSnapshots may fail
FindPrevious ==
    /\ selPc = "in"
    /\ \/ /\ result' = findPreviousSnapshotManifest(manifests)
          /\ selPc' = "once"
       \/ /\ result' = << >>
          /\ selPc' = "failed"
    /\ UNCHANGED <<notSel, manifests, reordered, result2>>

\* findPreviousSnapshotManifest again, ListSnapshots returning the same
\* manifests in some order
FindPreviousReordered ==
    /\ selPc = "once"
    /\ \E ms \in Orders(manifests) :
          /\ reordered' = ms
          /\ result2' = findPreviousSnapshotManifest(ms)
    /\ selPc' = "done"
    /\ UNCHANGED <<notSel, manifests, result>>

SelNext == FindPrevious \/ FindPreviousReordered

SpecSel == SelInit /\ [][SelNext]_vars

----------------------------------------------------------------------------
(* createSnapshot: the write-session callback and snapshotSingleSource *)

\* root object ids of uploads and of earlier manifests
Roots == {"r1", "r2"}

\* the manifests ListSnapshots returns for one source, oldest first
SnapHistories ==
    UNION {{[i \in 1..n |-> [id |-> i, StartTime |-> i,
                             IncompleteReason |-> rs[i], root |-> os[i]]] :
              rs \in [1..n -> {"", "canceled"}], os \in [1..n -> Roots]} :
           n \in 0..MaxLen}

\* op.Config.Dirs: up to MaxDirs distinct directories in any declared order
DirLists ==
    UNION {{d \in [1..n -> 1..MaxDirs] : \A i, j \in 1..n : d[i] = d[j] => i = j} :
           n \in 0..MaxDirs}

SnapInit ==
    /\ BootIdle
    /\ SelIdle
    /\ GitIdle
    /\ CfgIdle
    /\ OthersIdle
    /\ dirs \in DirLists
    /\ srcIdx = 1
    /\ snapPc = "loop"
    /\ previousManifests = << >>
    /\ ignoreIdenticalSnapshot = FALSE
    /\ manifestRoot = ""
    /\ snapLog = << >>
    /\ snapErr = NoSnapErr

\* the call o made for the source being processed
Call(o) == [src |-> srcIdx, dir |-> dirs[srcIdx], op |-> o]

SourceFailedButLoopGoesOn(o) ==
    /\ snapPc' = "loop"
    /\ srcIdx' = srcIdx + 1
    /\ snapErr' = [src |-> srcIdx, op |-> o]
    /\ snapLog' = Append(snapLog, Call(o))

SourceFailedButSaveGoesOn(o) ==
    /\ snapPc' = (IF o = "SaveSnapshot" THEN "retention" ELSE "done")
    /\ srcIdx' = srcIdx
    /\ snapErr' = [src |-> srcIdx, op |-> o]
    /\ snapLog' = Append(snapLog, Call(o))

\* `if err != nil { return err }` after the call o failed
SourceFailed(o) ==
    /\ snapPc' = "done"
    /\ srcIdx' = srcIdx
    /\ snapErr' = [src |-> srcIdx, op |-> o]
    /\ snapLog' = Append(snapLog, Call(o))

\* the call o returned without error; the callback goes on at l
SourceStep(o, l) ==
    /\ snapPc' = l
    /\ srcIdx' = srcIdx
    /\ snapErr' = snapErr
    /\ snapLog' = Append(snapLog, Call(o))

\* snapshotSingleSource returned nil: the loop takes the next directory
NextSource ==
    /\ snapPc' = "loop"
    /\ srcIdx' = srcIdx + 1
    /\ snapErr' = snapErr

\* `for _, dirPath := range op.Config.Dirs`: localfs.NewEntry(dirPath)
NewEntry ==
    /\ snapPc = "loop"
    /\ srcIdx <= Len(dirs)
    /\ \/ SourceStep("NewEntry", "findPrevious")
       \/ SourceFailed("NewEntry")
    /\ UNCHANGED <<notSnap, dirs, previousManifests, ignoreIdenticalSnapshot,
                   manifestRoot>>

\* the loop is over: the callback returns nil
LoopDone ==
    /\ snapPc = "loop"
    /\ srcIdx > Len(dirs)
    /\ snapPc' = "done"
    /\ UNCHANGED <<notSnap, dirs, srcIdx, previousManifests,
                   ignoreIdenticalSnapshot, manifestRoot, snapLog, snapErr>>

\* snapshotSingleSource: previousManifests, err := findPreviousSnapshotManifest(...)
FindPreviousManifests ==
    /\ snapPc = "findPrevious"
    /\ \/ /\ \E h \in SnapHistories :
                previousManifests' = findPreviousSnapshotManifest(h)
          /\ SourceStep("ListSnapshots", "treeForSource")
       \/ /\ SourceFailed("ListSnapshots")
          /\ UNCHANGED previousManifests
    /\ UNCHANGED <<notSnap, dirs, ignoreIdenticalSnapshot, manifestRoot>>

\* snapshotSingleSource: policyTree, err := policy.TreeForSource(...); the
\* effective policy decides IgnoreIdenticalSnapshots.OrDefault(false)
TreeForSource ==
    /\ snapPc = "treeForSource"
    /\ \/ /\ ignoreIdenticalSnapshot' \in BOOLEAN
          /\ SourceStep("TreeForSource", "upload")
       \/ /\ SourceFailed("TreeForSource")
          /\ UNCHANGED ignoreIdenticalSnapshot
    /\ UNCHANGED <<notSnap, dirs, previousManifests, manifestRoot>>

\* snapshotSingleSource: manifest, err := uploader.Upload(...)
Upload ==
    /\ snapPc = "upload"
    /\ \/ /\ manifestRoot' \in Roots
          /\ SourceStep("Upload", "save")
       \/ /\ SourceFailed("Upload")
          /\ UNCHANGED manifestRoot
    /\ UNCHANGED <<notSnap, dirs, previousManifests, ignoreIdenticalSnapshot>>

SkipsNothing(ignore, previous, root) == FALSE

SkipsWhateverThePolicy(ignore, previous, root) ==
    Len(previous) > 0 /\ previous[1].root = root

\* snapshotSingleSource: `if ignoreIdenticalSnapshot && len(previousManifests) > 0 {
\* if previousManifests[0].RootObjectID() == manifest.RootObjectID() { return nil } }`
SkipsIdentical(ignore, previous, root) ==
    ignore /\ Len(previous) > 0 /\ previous[1].root = root

\* snapshotSingleSource after the upload: the identical-snapshot check, then
\* snapshot.SaveSnapshot
SaveSnapshot ==
    /\ snapPc = "save"
    /\ IF SkipsIdentical(ignoreIdenticalSnapshot, previousManifests, manifestRoot)
          THEN NextSource /\ UNCHANGED snapLog
          ELSE \/ SourceStep("SaveSnapshot", "retention")
               \/ SourceFailed("SaveSnapshot")
    /\ UNCHANGED <<notSnap, dirs, previousManifests, ignoreIdenticalSnapshot,
                   manifestRoot>>

\* snapshotSingleSource: policy.ApplyRetentionPolicy(ctx, rep, sourceInfo, false)
ApplyRetentionPolicy ==
    /\ snapPc = "retention"
    /\ \/ NextSource /\ snapLog' = Append(snapLog, Call("ApplyRetentionPolicy"))
       \/ SourceFailed("ApplyRetentionPolicy")
    /\ UNCHANGED <<notSnap, dirs, previousManifests, ignoreIdenticalSnapshot,
                   manifestRoot>>

SnapNext ==
    \/ NewEntry
    \/ LoopDone
    \/ FindPreviousManifests
    \/ TreeForSource
    \/ Upload
    \/ SaveSnapshot
    \/ ApplyRetentionPolicy

SpecSnap == SnapInit /\ [][SnapNext]_vars

----------------------------------------------------------------------------
(* util.GetGitWorkingDirectory *)

\* An absolute path is the sequence of its elements, the root "/" first; the
\* empty sequence is the empty string.
DirNames == {"a", "b"}

AbsPaths ==
    UNION {{<<"/">> \o p : p \in [1..n -> DirNames]} : n \in 0..MaxDepth}

\* what os.Stat(filepath.Join(dir, ".git")) finds: nothing (an error that
\* os.IsNotExist accepts), a directory, another kind of file, or an error
\* that os.IsNotExist does not accept, with a nil FileInfo
Kinds == {"absent", "dir", "file", "error"}

ErrNotGit == "not a git repository"

DirIsRoot(path) == <<"/">>

DirOfDir(path) ==
    IF Len(path) <= 2 THEN <<"/">> ELSE SubSeq(path, 1, Len(path) - 2)

\* filepath.Dir on an absolute path: all but the last element; "/" for "/"
Dir(path) ==
    IF Len(path) <= 1 THEN path ELSE SubSeq(path, 1, Len(path) - 1)

IsAnyEntry(kind) == kind # "absent"

\* info.IsDir()
IsDir(kind) == kind = "dir"

GitInit ==
    /\ BootIdle
    /\ SelIdle
    /\ SnapIdle
    /\ CfgIdle
    /\ OthersIdle
    /\ gitStart \in AbsPaths
    /\ gitMarker \in [1..Len(gitStart) -> Kinds]
    /\ gitPath = gitStart
    /\ gitPc = "call"
    /\ gitOut = [path |-> << >>, err |-> ""]

\* One call of GetGitWorkingDirectory(gitPath): the probe of gitPath/.git, then
\* a return or the recursive call on the parent. With an error that is not
\* not-exist, `os.IsNotExist(err) || !info.IsDir()` calls IsDir on a nil
\* FileInfo and the call panics.
GetGitWorkingDirectory ==
    /\ gitPc = "call"
    /\ LET kind == gitMarker[Len(gitPath)]
           parent == Dir(gitPath) IN
       IF kind = "error"
          THEN gitPc' = "panic" /\ UNCHANGED <<gitPath, gitOut>>
       ELSE IF kind = "absent" \/ ~IsDir(kind)
          THEN IF parent = gitPath
                  THEN /\ gitPc' = "returned"
                       /\ gitOut' = [path |-> << >>, err |-> ErrNotGit]
                       /\ UNCHANGED gitPath
                  ELSE /\ gitPath' = parent
                       /\ UNCHANGED <<gitPc, gitOut>>
       ELSE /\ gitPc' = "returned"
            /\ gitOut' = [path |-> gitPath, err |-> NoErr]
            /\ UNCHANGED gitPath
    /\ UNCHANGED <<notGit, gitStart, gitMarker>>

GitNext == GetGitWorkingDirectory

SpecGit == GitInit /\ [][GitNext]_vars

----------------------------------------------------------------------------
(* The persisted project config: GetConfig, UpdateGassetId, UpdateConfig,   *)
(* ReloadKopiaConfig, with another process reading the file                *)

\* the backend sections a user may have written into .gasset: with or without
\* credentials of its own, with or without keys repo.LocalConfig ignores
FileKopias ==
    {[storage |-> "s3", accessKeyID |-> c, secretAccessKey |-> c, extra |-> x] :
        c \in {"", "in-file"}, x \in BOOLEAN}

\* the "dirs" key of a .gasset file: missing, null, or a list, here the empty
\* one or the list of the one directory src
FileDirs == {"absent", "null", "[]", "[src]"}

\* json.Unmarshal into Dirs []string: a missing key and null leave the slice nil
DecodeDirs(d) == IF d \in {"absent", "null"} THEN "nil" ELSE d

\* json.MarshalIndent of Dirs, tagged `json:"dirs"`: a nil slice is written as null
EncodeDirs(d) == IF d = "nil" THEN "null" ELSE d

\* the .gasset files a project may start with
GassetFiles ==
    {[bytes |-> "complete", kopia |-> k, gassetId |-> id, dirs |-> d,
      form |-> "user"] :
        k \in FileKopias, id \in {EmptyId} \cup Ids, d \in FileDirs}

\* the values KOPIA_ACCESS_ID, KOPIA_ACCESS_SECRET, KOPIA_PASSWORD may have
SecretSources ==
    {[accessKey |-> "id-A", secretKey |-> "secret-A", password |-> "pw-A"],
     [accessKey |-> "id-B", secretKey |-> "secret-B", password |-> "pw-B"]}

\* GetConfig: json.Unmarshal into Config, which keeps the keys Config and
\* repo.LocalConfig declare
Decode(file) ==
    [kopia |-> [file.kopia EXCEPT !.extra = FALSE], gassetId |-> file.gassetId,
     dirs |-> DecodeDirs(file.dirs)]

\* UpdateConfig: json.MarshalIndent of the Config
Encode(c) ==
    [bytes |-> "complete", kopia |-> c.kopia, gassetId |-> c.gassetId,
     dirs |-> EncodeDirs(c.dirs),
     form |-> "indented"]

\* ReloadKopiaConfig: the access keys are set in the s3 options of kopiaConfig,
\* which op.Config.Kopia points to
Inject(kopia, sec) ==
    [kopia EXCEPT !.accessKeyID = sec.accessKey, !.secretAccessKey = sec.secretKey]

UpdatedFromMemory(read, mem, id) == [mem EXCEPT !.gassetId = id]

UpdatedWithoutDirs(read, mem, id) == [read EXCEPT !.gassetId = id, !.dirs = "nil"]

UpdatedUnlessSet(read, mem, id) ==
    IF read.gassetId = EmptyId THEN [read EXCEPT !.gassetId = id] ELSE read

\* UpdateGassetId: the config GetConfig has just read, with config.GassetId set
Updated(read, mem, id) == [read EXCEPT !.gassetId = id]

CfgInit ==
    /\ BootIdle
    /\ SelIdle
    /\ SnapIdle
    /\ GitIdle
    /\ OthersIdle
    /\ gasset \in GassetFiles
    /\ gasset0 = gasset
    /\ secrets \in SecretSources
    /\ opConfig = NoConfig
    /\ opPassword = ""
    /\ config = NoConfig
    /\ cfgPc = "ready"
    /\ cfgOps = 0
    /\ observed = gasset
    /\ scratch = EmptyFile

\* an operation starts
Begin ==
    /\ cfgPc = "ready"
    /\ cfgOps < MaxOps
    /\ cfgOps' = cfgOps + 1

\* the file names of the project config and of the scratch file
GassetPath == ".gasset"

TempPathIsGassetPath == ".gasset"

\* ReloadKopiaConfig: tempPath, the file kopia.config in op.OsTempDir()
TempPath == "kopia.config"

\* WriteTempKopiaConfig: json.MarshalIndent of config.Kopia alone
EncodeKopia(c) ==
    [bytes |-> "complete", kopia |-> c.kopia, gassetId |-> EmptyId,
     dirs |-> "absent", form |-> "kopia"]

\* what os.WriteFile may leave in a file that held old: the bytes, or on a
\* failure the old content, none or some of the bytes
WriteFileOutcomes(old, bytes) ==
    {bytes, old, EmptyFile, [EmptyFile EXCEPT !.bytes = "partial"]}

\* the two files after os.WriteFile(path, ...) left the content new at path
FilesAfterWrite(path, new) ==
    [gasset |-> IF path = GassetPath THEN new ELSE gasset,
     scratch |-> IF path = TempPath THEN new ELSE scratch]

\* Options.ReloadKopiaConfig. GetConfig fails on a file that does not decode;
\* WriteTempKopiaConfig writes the backend section to the scratch file, from
\* which repo.LoadConfigFromFile reads it back; either may fail, and so may
\* LoadKopiaSecretsFromEnv, after op.Config has been set.
ReloadKopiaConfig ==
    /\ Begin
    /\ IF gasset.bytes # "complete"
          THEN UNCHANGED <<opConfig, opPassword, gasset, scratch>>
          ELSE \E written \in WriteFileOutcomes(scratch, EncodeKopia(Decode(gasset))) :
                  LET files == FilesAfterWrite(TempPath, written)
                      loaded == Decode(written).kopia IN
                  /\ gasset' = files.gasset
                  /\ scratch' = files.scratch
                  /\ \/ /\ written = EncodeKopia(Decode(gasset))
                        /\ opConfig' = [Decode(gasset) EXCEPT
                                           !.kopia = Inject(loaded, secrets)]
                        /\ opPassword' = secrets.password
                     \/ /\ opConfig' = Decode(gasset)
                        /\ UNCHANGED opPassword
    /\ UNCHANGED <<notCfg, gasset0, secrets, config, cfgPc, observed>>

\* connect(op, create) as far as the config goes: with create, createRepo sets
\* op.Config.GassetId and ends in UpdateGassetId, unless a call fails before
ConnectConfig ==
    /\ Begin
    /\ opConfig # NoConfig
    /\ \/ UNCHANGED <<opConfig, cfgPc>>
       \/ /\ \E id \in Ids : opConfig' = [opConfig EXCEPT !.gassetId = id]
          /\ cfgPc' \in {"ready", "getConfig"}
    /\ UNCHANGED <<notCfg, gasset, gasset0, secrets, opPassword, config, observed,
                   scratch>>

\* UpdateGassetId(op.WorkingDirectory, op.Config.GassetId) is called
CallUpdateGassetId ==
    /\ Begin
    /\ opConfig # NoConfig
    /\ cfgPc' = "getConfig"
    /\ UNCHANGED <<notCfg, gasset, gasset0, secrets, opConfig, opPassword, config,
                   observed, scratch>>

\* UpdateGassetId: config, err := GetConfig(path); config.GassetId = gassetId
UpdateGassetIdRead ==
    /\ cfgPc = "getConfig"
    /\ IF gasset.bytes = "complete"
          THEN /\ config' = Updated(Decode(gasset), opConfig, opConfig.gassetId)
               /\ cfgPc' = "writeFile"
          ELSE /\ cfgPc' = "ready"
               /\ UNCHANGED config
    /\ UNCHANGED <<notCfg, gasset, gasset0, secrets, opConfig, opPassword, cfgOps,
                   observed, scratch>>

\* UpdateConfig: os.WriteFile opens the file with O_TRUNC; the open may fail
UpdateConfigOpen ==
    /\ cfgPc = "writeFile"
    /\ \/ gasset' = EmptyFile /\ cfgPc' = "write"
       \/ gasset' = gasset /\ cfgPc' = "ready"
    /\ UNCHANGED <<notCfg, gasset0, secrets, opConfig, opPassword, config, cfgOps,
                   observed, scratch>>

\* UpdateConfig: os.WriteFile writes the bytes; a failed write leaves none or
\* some of them
UpdateConfigWrite ==
    /\ cfgPc = "write"
    /\ \/ gasset' = Encode(config)
       \/ gasset' = EmptyFile
       \/ gasset' = [EmptyFile EXCEPT !.bytes = "partial"]
    /\ cfgPc' = "ready"
    /\ UNCHANGED <<notCfg, gasset0, secrets, opConfig, opPassword, config, cfgOps,
                   observed, scratch>>

\* another process: os.ReadFile in GetConfig, at any moment
ConcurrentGetConfig ==
    /\ cfgPc # "idle"
    /\ observed' = gasset
    /\ UNCHANGED <<notCfg, gasset, gasset0, secrets, opConfig, opPassword, config,
                   cfgPc, cfgOps, scratch>>

CfgNext ==
    \/ ReloadKopiaConfig
    \/ ConnectConfig
    \/ CallUpdateGassetId
    \/ UpdateGassetIdRead
    \/ UpdateConfigOpen
    \/ UpdateConfigWrite
    \/ ConcurrentGetConfig

SpecCfg == CfgInit /\ [][CfgNext]_vars

----------------------------------------------------------------------------
(* Two processes in util.UpdateGassetId on the same project *)

\* the two invocations
Writers == {1, 2}

RaceInit ==
    /\ BootIdle
    /\ SelIdle
    /\ SnapIdle
    /\ GitIdle
    /\ CfgIdle
    /\ PathIdle
    /\ RandIdle
    /\ raceFile \in GassetFiles
    /\ raceFile0 = raceFile
    /\ raceId \in [Writers -> Ids]
    /\ racePc = [p \in Writers |-> "call"]
    /\ raceRead = [p \in Writers |-> EmptyFile]
    /\ raceConfig = [p \in Writers |-> NoConfig]
    /\ raceErr = [p \in Writers |-> NoErr]
    /\ raceLast = 0

\* UpdateGassetId of process p returns e
RaceReturn(p, e) ==
    /\ racePc' = [racePc EXCEPT ![p] = "returned"]
    /\ raceErr' = [raceErr EXCEPT ![p] = e]

\* UpdateGassetId: config, err := GetConfig(path); config.GassetId = gassetId.
\* Nothing makes the process wait for another one that has read the file and
\* not yet written it.
RaceGetConfig(p) ==
    /\ racePc[p] = "call"
    /\ raceRead' = [raceRead EXCEPT ![p] = raceFile]
    /\ IF raceFile.bytes = "complete"
          THEN /\ raceConfig' = [raceConfig EXCEPT ![p] =
                                    Updated(Decode(raceFile), Decode(raceFile0), raceId[p])]
               /\ racePc' = [racePc EXCEPT ![p] = "writeFile"]
               /\ UNCHANGED raceErr
          ELSE /\ RaceReturn(p, "GetConfig")
               /\ UNCHANGED raceConfig
    /\ UNCHANGED <<notRace, raceFile, raceFile0, raceId, raceLast>>

\* UpdateConfig: os.WriteFile opens the file with O_TRUNC; the open may fail
RaceOpen(p) ==
    /\ racePc[p] = "writeFile"
    /\ \/ /\ raceFile' = EmptyFile
          /\ racePc' = [racePc EXCEPT ![p] = "write"]
          /\ UNCHANGED raceErr
       \/ /\ raceFile' = raceFile
          /\ RaceReturn(p, "WriteFile")
    /\ UNCHANGED <<notRace, raceFile0, raceId, raceRead, raceConfig, raceLast>>

\* UpdateConfig: os.WriteFile writes the bytes from offset 0 and returns nil
\* when all of them are written. The encodings the two processes write have
\* the same length (the same backend section, identities of GassetIdLength
\* characters), so a complete write leaves exactly its own bytes.
RaceWrite(p) ==
    /\ racePc[p] = "write"
    /\ \/ /\ raceFile' = Encode(raceConfig[p])
          /\ raceLast' = p
          /\ RaceReturn(p, NoErr)
       \/ /\ raceFile' \in WriteFileOutcomes(raceFile, Encode(raceConfig[p]))
                              \ {Encode(raceConfig[p])}
          /\ UNCHANGED raceLast
          /\ RaceReturn(p, "WriteFile")
    /\ UNCHANGED <<notRace, raceFile0, raceId, raceRead, raceConfig>>

RaceNext ==
    \/ \E p \in Writers : RaceGetConfig(p)
    \/ \E p \in Writers : RaceOpen(p)
    \/ \E p \in Writers : RaceWrite(p)

SpecRace == RaceInit /\ [][RaceNext]_vars

----------------------------------------------------------------------------
(* Options.GetKopiaUserConfigPath on strings *)

\* A string is the sequence of its characters; the literals "git-gasset",
\* "kopia-" and ".config", which hold no separator, stand as one element each.
Separator == "/"

\* characters of an identity as .gasset may hold it
IdChars == {"a", Separator, "."}

IdStrings == UNION {[1..n -> IdChars] : n \in 0..MaxIdLen}

\* user config directories, absolute
UserDirs == {<<Separator, "u">>, <<Separator, "v">>}

RECURSIVE SplitFrom(_, _, _)
\* the elements of the path s from position i on, cur being the element read
\* so far
SplitFrom(s, i, cur) ==
    IF i > Len(s) THEN <<cur>>
    ELSE IF s[i] = Separator THEN <<cur>> \o SplitFrom(s, i + 1, << >>)
    ELSE SplitFrom(s, i + 1, Append(cur, s[i]))

RECURSIVE CleanFrom(_, _, _)
\* filepath.Clean on the elements of a rooted path: empty and "." elements
\* are dropped, ".." drops the element before it (none at the root)
CleanFrom(elems, i, out) ==
    IF i > Len(elems) THEN out
    ELSE IF elems[i] = << >> \/ elems[i] = <<".">> THEN CleanFrom(elems, i + 1, out)
    ELSE IF elems[i] = <<".", ".">>
       THEN CleanFrom(elems, i + 1,
                      IF out = << >> THEN out ELSE SubSeq(out, 1, Len(out) - 1))
    ELSE CleanFrom(elems, i + 1, Append(out, elems[i]))

RECURSIVE RenderFrom(_, _)
\* the rooted path with the elements from position i on
RenderFrom(elems, i) ==
    IF i > Len(elems) THEN << >>
    ELSE <<Separator>> \o elems[i] \o RenderFrom(elems, i + 1)

\* filepath.Clean of a rooted path
Clean(s) ==
    LET elems == CleanFrom(SplitFrom(s, 1, << >>), 1, << >>)
    IN  IF elems = << >> THEN <<Separator>> ELSE RenderFrom(elems, 1)

RECURSIVE ConcatFrom(_, _)
\* the non-empty strings from position i on, each after a separator
ConcatFrom(strs, i) ==
    IF i > Len(strs) THEN << >>
    ELSE IF strs[i] = << >> THEN ConcatFrom(strs, i + 1)
    ELSE <<Separator>> \o strs[i] \o ConcatFrom(strs, i + 1)

\* filepath.Join with a rooted first element: the non-empty elements joined
\* by separators, then Clean
Join(strs) == Clean(ConcatFrom(strs, 1))

\* filepath.Join(userDir, "git-gasset", "kopia-"+op.Config.GassetId+".config")
JoinedUserConfigPath(userDir, id) ==
    Join(<<userDir, <<"git-gasset">>, <<"kopia-">> \o id \o <<".config">>>>)

PathInit ==
    /\ BootIdle
    /\ SelIdle
    /\ SnapIdle
    /\ GitIdle
    /\ CfgIdle
    /\ RandIdle
    /\ RaceIdle
    /\ pathUserDir \in UserDirs
    /\ pathId \in IdStrings
    /\ pathOut = [path |-> << >>, err |-> ""]
    /\ pathPc = "call"

\* Options.GetKopiaUserConfigPath with op.Config.GassetId = pathId
CallGetKopiaUserConfigPath ==
    /\ pathPc = "call"
    /\ pathPc' = "returned"
    /\ \E dirErr \in BOOLEAN :
          LET r == GetKopiaUserConfigPath(pathId, dirErr) IN
          pathOut' = IF r.err # NoErr THEN r
                     ELSE [path |-> JoinedUserConfigPath(pathUserDir, pathId),
                           err |-> NoErr]
    /\ UNCHANGED <<notPath, pathUserDir, pathId>>

PathNext == CallGetKopiaUserConfigPath

SpecPath == PathInit /\ [][PathNext]_vars

----------------------------------------------------------------------------
(* util.GenerateRandomString on bounded inputs *)

\* values of randFunc(len(letters)) explored: the first and last index of the
\* digits, of the lower-case and of the upper-case letters
RandValues == {0, 9, 10, 35, 36, 61}

RandInit ==
    /\ BootIdle
    /\ SelIdle
    /\ SnapIdle
    /\ GitIdle
    /\ CfgIdle
    /\ PathIdle
    /\ RaceIdle
    /\ randN \in 0..MaxN
    /\ randDraws \in [1..randN -> RandValues]
    /\ randOut = << >>
    /\ randPc = "call"

\* GenerateRandomString(randN, randFunc), randFunc returning randDraws[i] on
\* its i-th call
CallGenerateRandomString ==
    /\ randPc = "call"
    /\ randOut' = GenerateRandomString(randN, randDraws)
    /\ randPc' = "returned"
    /\ UNCHANGED <<notRand, randN, randDraws>>

RandNext == CallGenerateRandomString

SpecRand == RandInit /\ [][RandNext]_vars

----------------------------------------------------------------------------
(* Properties of the bootstrap *)

Called(c) == \E i \in 1..Len(calls) : calls[i] = c

\* errors that come from a call into the backend, the OS or the file system
\* failing, as opposed to the errors init.go and rand.go decide themselves
CallErrors == {"setup failed", "S3New", ErrListing, "RepoInitialize",
               "OsUserConfigDir", "RepoConnect", "RepoOpen", "PolicySetPolicy",
               "RepoWriteSession", "GetConfig", "WriteFile"}

Finished(c, cr) == pc = "done" /\ cmd = c /\ create = cr

BackendUntouched ==
    /\ fileId = start.fileId
    /\ fileState = start.fileState
    /\ storage = start.storage
    /\ policy = start.policy

\* C1: a create bootstrap started on empty storage in which no call fails
\* returns nil with a non-empty identity in memory and the same identity in
\* .gasset; the connect (no create) that follows it with that identity, if no
\* call fails, returns nil without RepoInitialize, without a policy write and
\* without a write of .gasset.
C1_CreateThenReconnect ==
    /\ (Finished("init", TRUE) /\ start.storage = "empty" /\ err \notin CallErrors)
          => /\ err = NoErr
             /\ memId # EmptyId
             /\ fileId = memId
             /\ fileState = "ok"
    /\ (/\ Finished("init", FALSE)
        /\ prev.cmd = "init" /\ prev.create /\ prev.err = NoErr
        /\ err \notin CallErrors)
          => /\ err = NoErr
             /\ memId = prev.memId
             /\ ~Called("RepoInitialize")
             /\ ~Called("PolicySetPolicy")
             /\ ~Called("WriteFile")
             /\ BackendUntouched

C1_Witness ==
    /\ Finished("init", FALSE)
    /\ prev.cmd = "init" /\ prev.create /\ prev.err = NoErr
    /\ err = NoErr
    /\ memId # EmptyId
    /\ Called("RepoConnect")

\* C2: a create bootstrap whose listing probe visits a blob returns "found
\* existing data in storage location" and calls none of RepoInitialize,
\* RepoConnect, PolicySetPolicy or the .gasset write; the identity in memory and
\* the persisted identity keep the values they had on entry.
C2_AlreadyInitialized ==
    (Finished("init", TRUE) /\ probe = "hasData")
       => /\ err = ErrHasData
          /\ ~Called("RepoInitialize")
          /\ ~Called("RepoConnect")
          /\ ~Called("PolicySetPolicy")
          /\ ~Called("WriteFile")
          /\ memId = start.memId
          /\ fileId = start.fileId
          /\ fileState = start.fileState

C2_Witness ==
    /\ Finished("init", TRUE)
    /\ probe = "hasData"
    /\ err = ErrHasData
    /\ start.fileId # EmptyId
    /\ fileId = start.fileId

\* C3: the identity is assigned at most once: a non-empty identity, in memory
\* or in .gasset, is never replaced by a different one, and the identity is
\* assigned only after RepoInitialize returned nil in the same invocation.
C3_IdentityAssignedOnce ==
    /\ [][/\ (fileId # EmptyId /\ fileId' # EmptyId) => fileId' = fileId
          /\ (memId # EmptyId /\ memId' # EmptyId) => memId' = memId]_vars
    /\ [](Called("GenerateRandomString") => nInitOk = start.nInitOk + 1)

\* C4: RepoInitialize returns nil at most once over all invocations and is
\* never invoked on storage that holds data.
C4_InitializeOnce == nInitOk <= 1 /\ ~initOnData

C4_Witness ==
    /\ nInitOk = 1
    /\ Finished("init", TRUE)
    /\ err = ErrHasData
    /\ prev.cmd = "init" /\ prev.create /\ prev.err # NoErr

\* C5: with an empty identity, connect without create and createSnapshot return
\* "gasset id is empty" and RepoConnect and RepoOpen are not called; no
\* invocation calls RepoConnect or RepoOpen while the identity is empty.
C5_IdentityMissing ==
    /\ (/\ pc = "done"
        /\ (cmd = "snap" \/ (cmd = "init" /\ ~create))
        /\ start.memId = EmptyId
        /\ err \notin {"setup failed", "S3New"})
          => /\ err = ErrIdEmpty
             /\ ~Called("RepoConnect")
             /\ ~Called("RepoOpen")
    /\ (Called("RepoConnect") \/ Called("RepoOpen")) => memId # EmptyId
    /\ \A b \in BOOLEAN : GetKopiaUserConfigPath(EmptyId, b).err = ErrIdEmpty

C5_Witness ==
    /\ pc = "done"
    /\ cmd = "snap"
    /\ start.memId = EmptyId
    /\ err = ErrIdEmpty
    /\ prev.cmd = "init" /\ ~prev.create /\ prev.err = ErrIdEmpty

\* C6: a connect without create that starts with a non-empty identity and in
\* which no call fails returns nil; after k such invocations in a row .gasset,
\* the storage and the policy are what they were before the first, and the
\* kopia config files of the user config dir are what the first one left.
C6_ReconnectIdempotent ==
    (Finished("init", FALSE) /\ start.memId # EmptyId /\ err \notin CallErrors)
       => /\ err = NoErr
          /\ memId = start.memId
          /\ fileId = base.fileId
          /\ fileState = base.fileState
          /\ storage = base.storage
          /\ policy = base.policy
          /\ userConfigs = base.userConfigs \cup {KopiaUserConfigPath(memId)}
          /\ streak >= 1 => userConfigs = start.userConfigs

C6_Witness ==
    /\ Finished("init", FALSE)
    /\ streak = 2
    /\ start.memId # EmptyId
    /\ err = NoErr
    /\ Called("RepoConnect")
    /\ base.userConfigs = {}
    /\ userConfigs = start.userConfigs

----------------------------------------------------------------------------
(* Properties of the manifest selection *)

Selected == selPc \in {"once", "done"}

IsComplete(m) == m.IncompleteReason = ""

HasComplete(ms) == \E i \in 1..Len(ms) : IsComplete(ms[i])

Elems(ms) == {ms[i] : i \in 1..Len(ms)}

\* r is the selection the specification describes for the input ms
IsSelectionOf(r, ms) ==
    IF HasComplete(ms)
       THEN /\ Len(r) >= 1
            /\ r[1] \in Elems(ms)
            /\ IsComplete(r[1])
            /\ \A m \in Elems(ms) : IsComplete(m) => m.StartTime <= r[1].StartTime
            /\ Tail(r) = SelectSeq(ms, LAMBDA m :
                            ~IsComplete(m) /\ m.StartTime > r[1].StartTime)
       ELSE r = SelectSeq(ms, LAMBDA m : ~IsComplete(m))

\* C7: for every list of manifests the result is the complete manifest of
\* maximal StartTime, if there is one, followed by exactly the incomplete
\* manifests that started strictly after it, in input order; without a complete
\* manifest it is every incomplete manifest; the empty list gives the empty list.
C7_SelectionExact ==
    /\ Selected => IsSelectionOf(result, manifests)
    /\ selPc = "done" => IsSelectionOf(result2, reordered)

\* the three manifests of the example, in some order
IsExample(ms) ==
    /\ Len(ms) = 3
    /\ \E c, a, b \in 1..3 :
          /\ {c, a, b} = {1, 2, 3}
          /\ IsComplete(ms[c]) /\ ~IsComplete(ms[a]) /\ ~IsComplete(ms[b])
          /\ ms[a].StartTime > ms[c].StartTime
          /\ ms[b].StartTime < ms[c].StartTime

ExampleResult(ms) ==
    LET c == CHOOSE i \in 1..3 : IsComplete(ms[i])
        a == CHOOSE i \in 1..3 : ~IsComplete(ms[i]) /\ ms[i].StartTime > ms[c].StartTime
    IN  <<ms[c], ms[a]>>

NoStaleIncomplete(r, ms) ==
    /\ HasComplete(ms) =>
          /\ Len(r) >= 1
          /\ IsComplete(r[1])
          /\ \A i \in 1..Len(r) :
                ~IsComplete(r[i]) => r[i].StartTime > r[1].StartTime
    /\ IsExample(ms) => r = ExampleResult(ms)

\* C8: when the input holds a complete manifest, no incomplete manifest of the
\* result started at or before the selected baseline; complete@T1,
\* incomplete@T2 (T2 > T1) and incomplete@T3 (T3 < T1), in any order, give
\* [complete@T1, incomplete@T2].
C8_NoStaleIncomplete ==
    /\ Selected => NoStaleIncomplete(result, manifests)
    /\ selPc = "done" => NoStaleIncomplete(result2, reordered)

C8_Witness ==
    /\ selPc = "done"
    /\ IsExample(reordered)
    /\ ~IsComplete(reordered[1]) /\ reordered[1].StartTime < reordered[3].StartTime
    /\ IsComplete(reordered[3])
    /\ result2 = <<reordered[3], reordered[2]>>
    /\ reordered # manifests

\* C9: without a complete manifest in the input, the result is the whole input
\* in its order, whatever the StartTime values are.
C9_AllIncompleteKept ==
    (Selected /\ ~HasComplete(manifests)) => result = manifests

BaselineOf(r) == IF r # << >> /\ IsComplete(r[1]) THEN <<r[1]>> ELSE << >>

IncompleteSet(r) == {m \in Elems(r) : ~IsComplete(m)}

\* C10: two orderings of the same manifests select the same baseline manifest
\* and the same set of incomplete manifests.
C10_OrderIndependent ==
    selPc = "done" =>
       /\ BaselineOf(result) = BaselineOf(result2)
       /\ IncompleteSet(result) = IncompleteSet(result2)

UniqueLatestComplete(ms) ==
    \A m, n \in Elems(ms) :
       (/\ IsComplete(m) /\ IsComplete(n) /\ m # n
        /\ \A k \in Elems(ms) : IsComplete(k) => k.StartTime <= m.StartTime)
          => n.StartTime < m.StartTime

\* C10 as amended: two orderings of the same manifests select baselines with
\* the same StartTime (or none in both) and the same set of incomplete
\* manifests; they select the same baseline manifest when no two complete
\* manifests share the maximal StartTime.
C10_OrderIndependentUpToTies ==
    selPc = "done" =>
       /\ IncompleteSet(result) = IncompleteSet(result2)
       /\ Len(BaselineOf(result)) = Len(BaselineOf(result2))
       /\ BaselineOf(result) # << >> =>
             BaselineOf(result)[1].StartTime = BaselineOf(result2)[1].StartTime
       /\ UniqueLatestComplete(manifests) => BaselineOf(result) = BaselineOf(result2)

C10_Witness ==
    /\ selPc = "done"
    /\ Len(manifests) = 3
    /\ reordered # manifests
    /\ IsComplete(manifests[1]) /\ IsComplete(manifests[2])
    /\ manifests[1].StartTime < manifests[2].StartTime
    /\ reordered[1] = manifests[2]
    /\ reordered[3] = manifests[1]
    /\ BaselineOf(result) = <<manifests[2]>>
    /\ BaselineOf(result2) = <<manifests[2]>>
    /\ IncompleteSet(result) # {}

\* the position of the first complete manifest of ms among those with the
\* maximal StartTime
FirstLatestComplete(ms) ==
    CHOOSE i \in 1..Len(ms) :
       /\ IsComplete(ms[i])
       /\ \A j \in 1..Len(ms) : IsComplete(ms[j]) => ms[j].StartTime <= ms[i].StartTime
       /\ \A j \in 1..(i - 1) :
             ~(IsComplete(ms[j]) /\ ms[j].StartTime = ms[i].StartTime)

\* several complete manifests of ms share the maximal StartTime
TieAtMax(ms) ==
    \E i, j \in 1..Len(ms) :
       /\ i # j
       /\ IsComplete(ms[i]) /\ IsComplete(ms[j])
       /\ ms[i].StartTime = ms[j].StartTime
       /\ \A k \in 1..Len(ms) : IsComplete(ms[k]) => ms[k].StartTime <= ms[i].StartTime

\* r starts with the first of the latest complete manifests of ms and holds no
\* other complete manifest
BaselineIsFirstLatest(r, ms) ==
    IF HasComplete(ms)
       THEN /\ Len(r) >= 1
            /\ r[1] = ms[FirstLatestComplete(ms)]
            /\ \A k \in 2..Len(r) : ~IsComplete(r[k])
       ELSE \A k \in 1..Len(r) : ~IsComplete(r[k])

\* C33: the baseline selected is, among the complete manifests with the maximal
\* StartTime, the one that comes first in the order of the input (also when
\* several share that StartTime), and the result holds exactly one complete
\* manifest, at index 0 (none when the input holds none).
C33_FirstOfTiesIsBaseline ==
    /\ Selected => BaselineIsFirstLatest(result, manifests)
    /\ selPc = "done" => BaselineIsFirstLatest(result2, reordered)

C33_Witness ==
    /\ selPc = "done"
    /\ Len(manifests) = 3
    /\ TieAtMax(manifests)
    /\ IsComplete(manifests[1]) /\ IsComplete(manifests[2])
    /\ manifests[1].StartTime = manifests[2].StartTime
    /\ ~IsComplete(manifests[3])
    /\ manifests[3].StartTime > manifests[1].StartTime
    /\ result = <<manifests[1], manifests[3]>>
    /\ reordered = <<manifests[2], manifests[3], manifests[1]>>
    /\ result2 = <<manifests[2], manifests[3]>>

----------------------------------------------------------------------------
(* Properties of createRepo and connect *)

IsPrefix(a, b) == Len(a) <= Len(b) /\ a = SubSeq(b, 1, Len(a))

\* the steps of a create bootstrap, by the call each one makes: the probe,
\* RepoInitialize, the identity, RepoConnect, the policy write, the write of
\* .gasset, and connect's own RepoConnect at the end
CreateOrder == <<"ListBlobs", "RepoInitialize", "GenerateRandomString",
                 "RepoConnect", "PolicySetPolicy", "WriteFile", "RepoConnect">>

IsCreateStep(c) == \E i \in 1..Len(CreateOrder) : CreateOrder[i] = c

StepsCalled == SelectSeq(calls, IsCreateStep)

\* initPolicy returned nil in this invocation: UpdateGassetId was entered after
\* the policy write
PolicyWriteSucceeded ==
    \E i, j \in 1..Len(calls) :
       i < j /\ calls[i] = "PolicySetPolicy" /\ calls[j] = "ReadFile"

\* C21: the steps of a create bootstrap are made in the order probe,
\* RepoInitialize, identity, RepoConnect, policy write, identity write, a step
\* being made only while no earlier one has failed; RepoConnect uses the path
\* of the new identity; .gasset is written only in the UpdateGassetId step of
\* an invocation whose policy write has succeeded, so the persisted identity
\* has the new value only after that.
C21_CreateRepoOrder ==
    /\ []((cmd = "init" /\ create) => IsPrefix(StepsCalled, CreateOrder))
    /\ [](err # NoErr => pc = "done")
    /\ []((cmd = "init" /\ create /\ Called("RepoConnect") /\ err # "RepoConnect")
             => memId \in Ids /\ KopiaUserConfigPath(memId) \in userConfigs)
    /\ [][fileId' # fileId =>
             /\ pc = "updateGassetId"
             /\ Called("PolicySetPolicy")
             /\ policy = "default"]_vars
    /\ []((cmd = "init" /\ create /\ fileId = memId /\ fileId # start.fileId)
             => PolicyWriteSucceeded)

C21_Witness ==
    /\ Finished("init", TRUE)
    /\ err = NoErr
    /\ StepsCalled = CreateOrder
    /\ start.fileId = EmptyId
    /\ fileId = memId
    /\ fileId \in Ids
    /\ PolicyWriteSucceeded

\* the errors initPolicy returns from the repository: opening it, the write
\* session, the policy write
PolicyErrors == {"RepoOpen", "RepoWriteSession", "PolicySetPolicy"}

\* an invocation after the first one whose initPolicy failed
AfterPolicyFailure == gapRun > 0 /\ runs > gapRun

\* C22: a create bootstrap that fails in initPolicy has initialized the
\* repository and left .gasset as it was; every later create bootstrap fails
\* without calling RepoInitialize, with "found existing data in storage
\* location" unless a backend call of its own failed first; a later connect
\* without create on a still-empty persisted identity fails, with "gasset id
\* is empty" unless a backend call failed first.
C22_PolicyFailureGap ==
    /\ (Finished("init", TRUE) /\ (err \in PolicyErrors \/ gapRun = runs)) =>
          /\ storage = "data"
          /\ nInitOk = start.nInitOk + 1
          /\ fileId = start.fileId
          /\ fileState = start.fileState
          /\ gapRun \in 1..runs
    /\ (AfterPolicyFailure /\ Finished("init", TRUE)) =>
          /\ err # NoErr
          /\ ~Called("RepoInitialize")
          /\ nInitOk = start.nInitOk
          /\ err \notin CallErrors => err = ErrHasData
    /\ (AfterPolicyFailure /\ Finished("init", FALSE) /\ start.fileId = EmptyId) =>
          /\ err # NoErr
          /\ err \notin CallErrors => err = ErrIdEmpty

C22_Witness ==
    /\ gapRun = 1
    /\ runs = 3
    /\ Finished("init", FALSE)
    /\ prev.cmd = "init" /\ prev.create /\ prev.err = ErrHasData
    /\ fileId = EmptyId
    /\ err = ErrIdEmpty
    /\ storage = "data"
    /\ policy = "none"

\* the call an error of connect comes from; "gasset id is empty" is decided by
\* GetKopiaUserConfigPath before it calls anything
StepOfErr(e) ==
    CASE e = ErrListing -> "ListBlobs"
      [] e = ErrHasData -> "ListBlobs"
      [] e = "GetConfig" -> "ReadFile"
      [] e = ErrIdEmpty -> "none"
      [] OTHER -> e

\* the calls made inside the failed step after the failing call has begun: the
\* callback of a write session that fails when it flushes, the deferred Close
TrailOf(e) ==
    CASE e = "RepoWriteSession" -> {"PolicySetPolicy", "Close"}
      [] e = "PolicySetPolicy" -> {"Close"}
      [] OTHER -> {}

\* the calls every step of connect makes at most once in an invocation
OnceCalls == {"S3New", "ListBlobs", "RepoInitialize", "GenerateRandomString",
              "RepoOpen", "RepoWriteSession", "PolicySetPolicy", "ReadFile",
              "WriteFile"}

CountOf(c) == Cardinality({i \in 1..Len(calls) : calls[i] = c})

\* the failing call is in the log and nothing but the rest of its own step
\* follows its last occurrence
FailedStepIsLast ==
    \/ StepOfErr(err) = "none"
    \/ \E i \in 1..Len(calls) :
          /\ calls[i] = StepOfErr(err)
          /\ \A j \in (i + 1)..Len(calls) : calls[j] \in TrailOf(err)

\* C23: in connect an error ends the invocation at the step that returned it:
\* the only step after it is the start of another invocation, the failing call
\* is the last one logged (but for the rest of its own step), a call is made
\* once (RepoConnect twice on create, the second time only after the first
\* returned nil), and the error returned is the one of the failing call.
C23_ConnectStopsAtFirstError ==
    /\ []((cmd = "init" /\ err # NoErr /\ err # "setup failed") =>
             /\ pc = "done"
             /\ FailedStepIsLast)
    /\ [](cmd = "init" =>
             /\ \A c \in OnceCalls : CountOf(c) <= 1
             /\ CountOf("RepoConnect") <= (IF create THEN 2 ELSE 1)
             /\ (CountOf("RepoConnect") = 2 /\ err = "RepoConnect") =>
                   Called("WriteFile"))
    /\ [][(cmd = "init" /\ err # NoErr) =>
             /\ runs' = runs + 1
             /\ calls' = << >>]_vars
    /\ [][(cmd = "init" /\ err = NoErr /\ err' # NoErr /\ runs' = runs) =>
             /\ pc' = "done"
             /\ StepOfErr(err') # "none" =>
                   /\ Len(calls') > Len(calls)
                   /\ \E i \in (Len(calls) + 1)..Len(calls') :
                         calls'[i] = StepOfErr(err')]_vars

C23_Witness ==
    /\ Finished("init", TRUE)
    /\ err = "RepoWriteSession"
    /\ calls = <<"S3New", "ListBlobs", "RepoInitialize", "GenerateRandomString",
                 "OsUserConfigDir", "RepoConnect", "OsUserConfigDir", "RepoOpen",
                 "RepoWriteSession", "PolicySetPolicy", "Close">>

\* C30: an init invocation that has returned an error from connect leaves
\* .gasset as it was when the invocation started, and the persisted identity
\* changes only in an invocation that then returns nil.
C30_ErrorLeavesConfig ==
    /\ []((pc = "done" /\ cmd = "init" /\ err # NoErr) =>
             /\ fileId = start.fileId
             /\ fileState = start.fileState)
    /\ []((pc = "done" /\ cmd = "init" /\ fileId # start.fileId) => err = NoErr)

\* the calls a create bootstrap makes once when it succeeds: the probe, the
\* initialization, RepoOpen with the write session and its policy write, the
\* read and the write of .gasset
CreateOnceCalls == {"S3New", "ListBlobs", "RepoInitialize", "RepoOpen",
                    "RepoWriteSession", "PolicySetPolicy", "ReadFile", "WriteFile"}

CreateSucceeded == Finished("init", TRUE) /\ err = NoErr

\* C31: a create bootstrap that returned nil has made every backend call
\* exactly once, RepoConnect included.
C31_EachStepOnce ==
    CreateSucceeded =>
       /\ \A c \in CreateOnceCalls : CountOf(c) = 1
       /\ CountOf("RepoConnect") = 1

\* C31 as amended: a create bootstrap that returned nil has made the probe,
\* RepoInitialize, RepoOpen, the policy write and the .gasset write exactly
\* once each and RepoConnect exactly twice: once in createRepo before the
\* policy write, once in connect after the identity was persisted.
C31_EachStepOnceConnectTwice ==
    CreateSucceeded =>
       /\ \A c \in CreateOnceCalls : CountOf(c) = 1
       /\ CountOf("RepoConnect") = 2
       /\ \E i, j, k, l \in 1..Len(calls) :
             /\ i < j /\ j < k /\ k < l
             /\ calls[i] = "RepoConnect"
             /\ calls[j] = "PolicySetPolicy"
             /\ calls[k] = "WriteFile"
             /\ calls[l] = "RepoConnect"
             /\ l = Len(calls)

C31_Witness ==
    /\ CreateSucceeded
    /\ runs = 1
    /\ nInitOk = 1
    /\ policy = "default"
    /\ fileId = memId
    /\ CountOf("RepoConnect") = 2
    /\ KopiaUserConfigPath(memId) \in userConfigs

\* C34: the step of ensureEmpty has three outcomes. It returns nil exactly when
\* the listing ended without visiting a blob, and createRepo goes on to
\* RepoInitialize; "found existing data in storage location" exactly when the
\* listing visited a blob; "error listing blobs" exactly when the listing
\* failed by itself. The two errors differ, and an invocation that returned
\* either has not called RepoInitialize and has left the storage as it was.
C34_EnsureEmptyOutcomes ==
    /\ [][pc = "createRepo" =>
             /\ probe' \in {"nil", "hasData", "failed"}
             /\ probe' = "nil" <=> (err' = NoErr /\ pc' = "repoInitialize")
             /\ probe' = "hasData" <=> (err' = ErrHasData /\ pc' = "done")
             /\ probe' = "failed" <=> (err' = ErrListing /\ pc' = "done")
             /\ probe' = "nil" => storage = "empty"
             /\ probe' = "hasData" => storage = "data"]_vars
    /\ [](ErrHasData # ErrListing)
    /\ []((Finished("init", TRUE) /\ err \in {ErrHasData, ErrListing}) =>
             /\ probe \in {"hasData", "failed"}
             /\ calls = <<"S3New", "ListBlobs">>
             /\ nInitOk = start.nInitOk
             /\ storage = start.storage)
    /\ [](Called("RepoInitialize") => probe = "nil")

C34_Witness ==
    /\ Finished("init", TRUE)
    /\ err = ErrListing
    /\ probe = "failed"
    /\ storage = "empty"
    /\ nInitOk = 0
    /\ prev.cmd = "init" /\ prev.create /\ prev.err = "S3New"

----------------------------------------------------------------------------
(* Properties of createSnapshot *)

LastCall == snapLog[Len(snapLog)]

\* the upload of the source being processed produced the root object of the
\* source's baseline, and the effective policy ignores identical snapshots
IdenticalToBaseline ==
    /\ ignoreIdenticalSnapshot
    /\ previousManifests # << >>
    /\ IsComplete(previousManifests[1])
    /\ previousManifests[1].root = manifestRoot

\* every call is made for a source the loop has reached, and the loop never
\* goes back to an earlier source
CallsUpToCurrentSource ==
    /\ [](\A k \in 1..Len(snapLog) : snapLog[k].src <= srcIdx)
    /\ [][srcIdx' >= srcIdx]_vars

\* C11: with IgnoreIdenticalSnapshots enabled and the uploaded root equal to
\* the baseline's root, snapshotSingleSource makes no further call for the
\* source (no SaveSnapshot, no ApplyRetentionPolicy) and returns nil: the loop
\* moves to the next source with no error.
C11_IdenticalSkipped ==
    /\ [][(snapPc = "save" /\ IdenticalToBaseline) =>
             /\ snapLog' = snapLog
             /\ snapErr' = NoSnapErr
             /\ snapPc' = "loop"
             /\ srcIdx' = srcIdx + 1]_vars
    /\ CallsUpToCurrentSource

C11_Witness ==
    /\ snapPc = "loop"
    /\ srcIdx = 2
    /\ IdenticalToBaseline
    /\ Len(previousManifests) = 2
    /\ Len(snapLog) = 4
    /\ LastCall = [src |-> 1, dir |-> dirs[1], op |-> "Upload"]
    /\ snapErr = NoSnapErr

\* C12: with IgnoreIdenticalSnapshots disabled, the step after a successful
\* upload is a SaveSnapshot call for the source, whatever the roots of the
\* previous manifests are; when it returns no error the next step is an
\* ApplyRetentionPolicy call for the same source.
C12_SavedThenRetained ==
    /\ [](snapPc = "save" => LastCall = Call("Upload"))
    /\ [][(snapPc = "save" /\ ~ignoreIdenticalSnapshot) =>
             /\ snapLog' = Append(snapLog, Call("SaveSnapshot"))
             /\ snapErr' = NoSnapErr => (snapPc' = "retention" /\ srcIdx' = srcIdx)]_vars
    /\ [](snapPc = "retention" => LastCall = Call("SaveSnapshot"))
    /\ [][snapPc = "retention" =>
             snapLog' = Append(snapLog, Call("ApplyRetentionPolicy"))]_vars

C12_Witness ==
    /\ snapPc = "loop"
    /\ srcIdx = 2
    /\ ~ignoreIdenticalSnapshot
    /\ previousManifests # << >>
    /\ IsComplete(previousManifests[1])
    /\ previousManifests[1].root = manifestRoot
    /\ Len(snapLog) = 6
    /\ snapLog[5] = [src |-> 1, dir |-> dirs[1], op |-> "SaveSnapshot"]
    /\ LastCall = [src |-> 1, dir |-> dirs[1], op |-> "ApplyRetentionPolicy"]

\* the calls that end the processing of a source without an error
EndsSource(c) == c.op \in {"Upload", "ApplyRetentionPolicy"}

\* C13: the sources are processed one at a time in the order of op.Config.Dirs,
\* each starting with NewEntry after the one before it ended; when a call fails
\* the callback returns that call's error at once, so the failing call is the
\* last call made and no later source sees an upload, a save or a retention.
C13_FirstFailureStops ==
    /\ \A k \in 1..Len(snapLog) :
          /\ snapLog[k].src \in 1..Len(dirs)
          /\ snapLog[k].src <= srcIdx
          /\ snapLog[k].dir = dirs[snapLog[k].src]
          /\ k = 1 => snapLog[k].src = 1 /\ snapLog[k].op = "NewEntry"
          /\ k > 1 =>
                \/ snapLog[k].src = snapLog[k - 1].src /\ snapLog[k].op # "NewEntry"
                \/ /\ snapLog[k].src = snapLog[k - 1].src + 1
                   /\ snapLog[k].op = "NewEntry"
                   /\ EndsSource(snapLog[k - 1])
    /\ snapErr # NoSnapErr =>
          /\ snapPc = "done"
          /\ LastCall = [src |-> snapErr.src, dir |-> dirs[snapErr.src],
                         op |-> snapErr.op]
          /\ \A k \in 1..Len(snapLog) : snapLog[k].src <= snapErr.src
    /\ (snapPc = "done" /\ snapErr = NoSnapErr) =>
          /\ srcIdx = Len(dirs) + 1
          /\ \A i \in 1..Len(dirs) : \E k \in 1..Len(snapLog) :
                snapLog[k].src = i /\ EndsSource(snapLog[k])

C13_Witness ==
    /\ snapPc = "done"
    /\ dirs = <<2, 1>>
    /\ snapErr = [src |-> 1, op |-> "SaveSnapshot"]
    /\ Len(snapLog) = 5

\* C24: after the upload snapshotSingleSource returns without a SaveSnapshot
\* call only when IgnoreIdenticalSnapshots is enabled, the previous list holds
\* a complete manifest (which is then its first element) and that manifest's
\* root equals the uploaded root; in every other case, a previous list of
\* incomplete manifests only included, the next call is SaveSnapshot.
C24_SkipsOnlyOnBaseline ==
    /\ [][(snapPc = "save" /\ snapLog' = snapLog) =>
             /\ ignoreIdenticalSnapshot
             /\ HasComplete(previousManifests)
             /\ IsComplete(previousManifests[1])
             /\ previousManifests[1].root = manifestRoot]_vars
    /\ [][(snapPc = "save" /\ ~IdenticalToBaseline) =>
             snapLog' = Append(snapLog, Call("SaveSnapshot"))]_vars

\* the log holds a call o for the source at position i of op.Config.Dirs
Logged(i, o) == \E k \in 1..Len(snapLog) : snapLog[k].src = i /\ snapLog[k].op = o

\* C25: an ApplyRetentionPolicy call for a source comes directly after the
\* SaveSnapshot call for the same source, and that call returned no error; a
\* source whose upload or save failed, or whose save was skipped as identical,
\* has no ApplyRetentionPolicy call.
C25_RetentionAfterSave ==
    /\ [](\A k \in 1..Len(snapLog) :
             snapLog[k].op = "ApplyRetentionPolicy" =>
                /\ k > 1
                /\ snapLog[k - 1] = [snapLog[k] EXCEPT !.op = "SaveSnapshot"]
                /\ snapErr # [src |-> snapLog[k].src, op |-> "SaveSnapshot"])
    /\ [](snapErr.op \in {"Upload", "SaveSnapshot"} =>
             ~Logged(snapErr.src, "ApplyRetentionPolicy"))
    /\ [](\A i \in 1..Len(dirs) :
             Logged(i, "ApplyRetentionPolicy") => Logged(i, "SaveSnapshot"))
    /\ [][(snapPc = "save" /\ snapLog' = snapLog) =>
             /\ snapPc' = "loop"
             /\ srcIdx' = srcIdx + 1]_vars
    /\ [][(snapLog' # snapLog /\ snapLog'[Len(snapLog')].op = "ApplyRetentionPolicy") =>
             /\ snapPc = "retention"
             /\ snapErr = NoSnapErr
             /\ LastCall = Call("SaveSnapshot")]_vars

C25_Witness ==
    /\ snapPc = "done"
    /\ snapErr = NoSnapErr
    /\ Len(dirs) = 2
    /\ Logged(1, "Upload")
    /\ ~Logged(1, "SaveSnapshot")
    /\ ~Logged(1, "ApplyRetentionPolicy")
    /\ Logged(2, "SaveSnapshot")
    /\ LastCall = [src |-> 2, dir |-> dirs[2], op |-> "ApplyRetentionPolicy"]

----------------------------------------------------------------------------
(* Properties of GetGitWorkingDirectory *)

\* the directory at depth r of the start path
Ancestor(r) == SubSeq(gitStart, 1, r)

\* the probe of the directory at depth d found no .git directory
NoGitDir(d) == gitMarker[d] \in {"absent", "file"}

GitDone == gitPc \in {"returned", "panic"}

C26_GitFileIsNoMarker ==
    /\ []((gitPc = "returned" /\ gitOut.err = NoErr) =>
             /\ gitOut.path = Ancestor(Len(gitOut.path))
             /\ gitOut.path # << >>
             /\ gitMarker[Len(gitOut.path)] # "file")
    /\ [][(gitPc = "call" /\ gitMarker[Len(gitPath)] = "file") =>
             IF Len(gitPath) > 1
                THEN /\ gitPc' = "call"
                     /\ gitPath' = SubSeq(gitPath, 1, Len(gitPath) - 1)
                     /\ gitOut' = gitOut
                ELSE /\ gitPc' = "returned"
                     /\ gitOut' = [path |-> << >>, err |-> ErrNotGit]]_vars

C26_Witness ==
    /\ gitPc = "returned"
    /\ gitStart = <<"/", "a", "b">>
    /\ gitMarker = <<"file", "dir", "file">>
    /\ gitOut = [path |-> <<"/", "a">>, err |-> NoErr]

\* C27: every step of the call either returns or goes on with the strict
\* parent of the current path, whatever the probe of the .git entry finds (a
\* symlink cycle at the entry makes the probe fail with an error that is not
\* not-exist); "not a git repository" is returned at the filesystem root only,
\* and the path never grows.
C27_ReturnsOrAscends ==
    /\ [][gitPc = "call" =>
             \/ gitPc' = "returned"
             \/ /\ gitPc' = "call"
                /\ Len(gitPath) > 1
                /\ gitPath' = SubSeq(gitPath, 1, Len(gitPath) - 1)]_vars
    /\ []((gitPc = "returned" /\ gitOut.err = ErrNotGit) => gitPath = <<"/">>)
    /\ [](Len(gitPath) \in 1..Len(gitStart) /\ gitPath = Ancestor(Len(gitPath)))

\* C35: whatever the probes of the .git entries find (nothing, a directory, a
\* non-directory, or a failure other than not-exist), the call ends by
\* returning a directory on the start path with no error, or the empty path
\* with "not a git repository"; it never ends in a panic.
C35_TotalOverProbes ==
    /\ gitPc # "panic"
    /\ gitPc = "returned" =>
          \/ /\ gitOut.err = NoErr
             /\ gitOut.path # << >>
             /\ gitOut.path = Ancestor(Len(gitOut.path))
          \/ gitOut = [path |-> << >>, err |-> ErrNotGit]

\* the directory at depth r is the deepest one on the start path, the start
\* path included, that holds a .git directory
Nearest(r) ==
    /\ gitMarker[r] = "dir"
    /\ \A d \in (r + 1)..Len(gitStart) : gitMarker[d] # "dir"

----------------------------------------------------------------------------
(* Properties of the persisted project config *)

SecretValues == {secrets.accessKey, secrets.secretKey, secrets.password}

\* C17: the backend section of a decodable .gasset is what the file held
\* before the first operation, as written or as GetConfig decodes it, and so
\* the same whatever the secrets source holds; none of its credential fields
\* holds a value of the secrets source.
C17_SecretsNotPersisted ==
    gasset.bytes = "complete" =>
       /\ gasset.kopia \in {gasset0.kopia, Decode(gasset0).kopia}
       /\ gasset.kopia.accessKeyID \notin SecretValues
       /\ gasset.kopia.secretAccessKey \notin SecretValues

C17_Witness ==
    /\ cfgPc = "ready"
    /\ opConfig.kopia.accessKeyID = secrets.accessKey
    /\ opConfig.kopia.secretAccessKey = secrets.secretKey
    /\ opPassword = secrets.password
    /\ gasset.bytes = "complete"
    /\ gasset.form = "indented"
    /\ gasset.gassetId = opConfig.gassetId
    /\ gasset.gassetId # gasset0.gassetId
    /\ gasset0.kopia.extra

\* C18: a GetConfig of another process reads a complete file: the content
\* before a write or the content after it, never an empty or partial one.
C18_WholeFileReplacement == observed.bytes = "complete"

\* C28: a step of ReloadKopiaConfig, whether it returns nil or an error, leaves
\* .gasset as it is; what it changes is op.Config, op.Password and the scratch
\* file.
C28_ReloadKeepsGasset ==
    /\ [][ReloadKopiaConfig => gasset' = gasset]_vars
    /\ [][scratch' # scratch =>
             /\ gasset' = gasset
             /\ cfgOps' = cfgOps + 1
             /\ UNCHANGED <<gasset0, secrets, config, cfgPc, observed>>]_vars

C28_Witness ==
    /\ cfgOps = 1
    /\ gasset = gasset0
    /\ gasset.kopia.extra
    /\ gasset.form = "user"
    /\ scratch = EncodeKopia(Decode(gasset))
    /\ opConfig.kopia.accessKeyID = secrets.accessKey
    /\ opPassword = secrets.password

----------------------------------------------------------------------------
(* Properties of GetKopiaUserConfigPath *)

PathReturned == pathPc = "returned" /\ pathOut.err = NoErr

\* the text <userConfigDir>/git-gasset/kopia-<id>.config
UserConfigPathText(userDir, id) ==
    userDir \o <<Separator, "git-gasset", Separator, "kopia-">> \o id \o <<".config">>

\* C19: for a non-empty identity the path returned is
\* <userConfigDir>/git-gasset/kopia-<identity>.config, and no other identity
\* has that path under the same user config directory.
C19_PathKeyedByIdentity ==
    (PathReturned /\ pathId # << >>) =>
       /\ pathOut.path = UserConfigPathText(pathUserDir, pathId)
       /\ \A id \in IdStrings \ {<< >>, pathId} :
             JoinedUserConfigPath(pathUserDir, id) # pathOut.path

\* an identity without separators, as GenerateRandomString produces
PlainId(id) == id # << >> /\ \A i \in 1..Len(id) : id[i] # Separator

\* identities without separators have the path of the claim, each its own
PlainIdsHaveOwnPaths ==
    (PathReturned /\ PlainId(pathId)) =>
       /\ pathOut.path = UserConfigPathText(pathUserDir, pathId)
       /\ \A id \in IdStrings \ {pathId} :
             PlainId(id) => JoinedUserConfigPath(pathUserDir, id) # pathOut.path

----------------------------------------------------------------------------
(* Properties of GenerateRandomString *)

Digits == {"0", "1", "2", "3", "4", "5", "6", "7", "8", "9"}

LowerCase == {"a", "b", "c", "d", "e", "f", "g", "h", "i", "j", "k", "l", "m",
              "n", "o", "p", "q", "r", "s", "t", "u", "v", "w", "x", "y", "z"}

UpperCase == {"A", "B", "C", "D", "E", "F", "G", "H", "I", "J", "K", "L", "M",
              "N", "O", "P", "Q", "R", "S", "T", "U", "V", "W", "X", "Y", "Z"}

\* the letter at the indexes explored, read off "0123456789a..zA..Z"
LetterAt(v) ==
    CASE v = 0 -> "0" [] v = 9 -> "9" [] v = 10 -> "a" [] v = 35 -> "z"
      [] v = 36 -> "A" [] v = 61 -> "Z"

\* C20: the string returned has exactly n characters, the i-th being the
\* letter at the index randFunc returned on its i-th call, so a digit, a
\* lower-case or an upper-case letter; with randFunc constantly 0 it is n
\* times "0".
C20_RandomStringFromDraws ==
    randPc = "returned" =>
       /\ Len(randOut) = randN
       /\ \A i \in 1..randN :
             /\ randOut[i] = LetterAt(randDraws[i])
             /\ randOut[i] \in Digits \cup LowerCase \cup UpperCase
             /\ randOut[i] \in Digits <=> randDraws[i] < 10
             /\ randOut[i] \in UpperCase <=> randDraws[i] >= 36
       /\ (\A i \in 1..randN : randDraws[i] = 0) => randOut = [i \in 1..randN |-> "0"]

C20_Witness ==
    /\ randPc = "returned"
    /\ randN = 3
    /\ randDraws = <<0, 35, 61>>
    /\ randOut = <<"0", "z", "Z">>

\* the list of source directories a decoded Dirs value holds
DirList(d) == IF d = "[src]" THEN <<"src">> ELSE << >>

----------------------------------------------------------------------------
(* Properties of two concurrent UpdateGassetId calls *)

RaceReturnedNil(p) == racePc[p] = "returned" /\ raceErr[p] = NoErr

\* C29: two UpdateGassetId calls on the same project are not serialized. Each
\* writes the file it read with its own identity set, whatever the other has
\* written since; a process may read while the other is between its read and
\* the end of its write; and when both have returned nil the file is the
\* encoding of the config of the one whose write completed last, with that
\* process's identity and no trace of the other's update.
C29_LastWriterWins ==
    /\ [](\A p \in Writers :
             racePc[p] \in {"writeFile", "write"} \/ RaceReturnedNil(p) =>
                raceConfig[p] = [Decode(raceRead[p]) EXCEPT !.gassetId = raceId[p]])
    /\ []((\A p \in Writers : RaceReturnedNil(p)) =>
             /\ raceLast \in Writers
             /\ raceFile = Encode(raceConfig[raceLast])
             /\ raceFile.gassetId = raceId[raceLast])
    /\ [][\A p \in Writers :
             (racePc[p] = "call" /\ racePc'[p] # "call") =>
                raceRead'[p] = raceFile]_vars

C29_Witness ==
    /\ \A p \in Writers : RaceReturnedNil(p)
    /\ \A p \in Writers : raceRead[p] = raceFile0
    /\ raceFile0.gassetId = EmptyId
    /\ raceId[1] # raceId[2]
    /\ raceLast = 1
    /\ raceFile.gassetId = raceId[1]
    /\ raceFile.gassetId # raceId[2]

----------------------------------------------------------------------------
(* Properties of the backend handles *)

\* C14: when an invocation has returned, it holds no backend handle: the
\* storage handle connect built and the repository RepoOpen returned in
\* initPolicy and createSnapshot have been released, whatever the outcome.
C14_HandlesReleased == pc = "done" => handles = {}

====
